---------------------------- MODULE Spec2Model ----------------------------
(***************************************************************************)
(* F1-Predictor backend: the feature aligner (preprocessing.py), the model *)
(* loader (model_loader.py), the prediction orchestrator (utils.py) and    *)
(* the HTTP endpoint (app.py).                                             *)
(*                                                                         *)
(* A pandas DataFrame is a record [columns, rows]: columns is the sequence *)
(* of column labels and rows the sequence of rows, each row the sequence   *)
(* of its cells, column by column.  A cell is NaN (missing) or Val(x).     *)
(* Times and scores are integers (a fixed-point reading of the floats).    *)
(***************************************************************************)
EXTENDS Integers, Sequences, FiniteSets, TLC

(***************************************************************************)
(* Bounds of the model.                                                    *)
(***************************************************************************)
\* Largest number of rows of a table handed to preprocess_input.
MaxRows == 2
\* Largest number of driver rows the qualifying fetch returns.
MaxDrivers == 21
\* Largest number of drivers that receive the same predicted score.
MaxTie == 2

(***************************************************************************)
(* Cells and frames.                                                       *)
(***************************************************************************)
NaN == <<>>

Val(x) == <<x>>

isna(cell) == cell = NaN

Range(s) == {s[k] : k \in 1..Len(s)}

\* The sequence f written out, element by element.
Tuple(f) == SubSeq(f, 1, Len(f))

\* A frame: rows[i][k] is the cell of row i in column columns[k].
DataFrame(columns, rows) ==
    [columns |-> Tuple(columns),
     rows |-> Tuple([i \in 1..Len(rows) |-> Tuple(rows[i])])]

\* DataFrame.empty: any axis of length 0.
empty(df) == Len(df.rows) = 0 \/ Len(df.columns) = 0

\* The position of a label among the column labels.
loc(columns, c) == CHOOSE k \in 1..Len(columns) : columns[k] = c

\* The cell of row i in the column labelled c.
cell_of(df, i, c) == df.rows[i][loc(df.columns, c)]

has_column(df, c) == c \in Range(df.columns)

\* df[cols]: the columns cols, in that order.
select(df, cols) ==
    LET at == Tuple([k \in 1..Len(cols) |-> loc(df.columns, cols[k])])
    IN  DataFrame(cols, [i \in 1..Len(df.rows) |->
                            [k \in 1..Len(cols) |-> df.rows[i][at[k]]]])

\* The column col set to one cell per row: overwrites the column or appends it.
assign_values(df, col, values) ==
    IF col \in Range(df.columns)
    THEN DataFrame(df.columns,
                   [i \in 1..Len(df.rows) |->
                       [k \in 1..Len(df.columns) |->
                           IF df.columns[k] = col THEN values[i] ELSE df.rows[i][k]]])
    ELSE DataFrame(Append(df.columns, col),
                   [i \in 1..Len(df.rows) |-> Append(df.rows[i], values[i])])

\* df[col] = value, for a scalar value.
assign(df, col, value) == assign_values(df, col, [i \in 1..Len(df.rows) |-> value])

\* df[col] = values, for a list: a frame without rows takes the list's length, its
\* other columns missing; otherwise the lengths must agree (ValueError).
assign_list(df, col, values) ==
    IF Len(df.rows) = 0 /\ Len(values) > 0
    THEN [raised |-> "None",
          frame |-> assign_values(
                        DataFrame(df.columns,
                                  [i \in 1..Len(values) |->
                                      [k \in 1..Len(df.columns) |-> NaN]]),
                        col, values)]
    ELSE IF Len(values) # Len(df.rows)
    THEN [raised |-> "ValueError", frame |-> df]
    ELSE [raised |-> "None", frame |-> assign_values(df, col, values)]

\* df.drop(col, axis=1)
drop_column(df, col) == select(df, SelectSeq(df.columns, LAMBDA c : c # col))

\* pd.merge(left, right, on=on, how='left'): the left rows in their order, each
\* once per right row with its key, or once with the right columns missing.
merge_left(left, right, on) ==
    LET rest == SelectSeq(right.columns, LAMBDA c : c # on)
        other == select(right, rest)
        lk == loc(left.columns, on)
        rk == loc(right.columns, on)
        matches(i) == SelectSeq([j \in 1..Len(right.rows) |-> j],
                                LAMBDA j : right.rows[j][rk] = left.rows[i][lk])
        joined(i) ==
            IF matches(i) = <<>>
            THEN << left.rows[i] \o [k \in 1..Len(rest) |-> NaN] >>
            ELSE [m \in 1..Len(matches(i)) |-> left.rows[i] \o other.rows[matches(i)[m]]]
        RECURSIVE rows_from(_)
        rows_from(i) == IF i > Len(left.rows) THEN <<>> ELSE joined(i) \o rows_from(i + 1)
    IN  DataFrame(left.columns \o rest, rows_from(1))

\* The orderings an ascending sort of the keys may leave the rows at idx in: the keys
\* ascend; rows with equal keys come in any order (kind='quicksort', the default of
\* sort_values, is not a stable sort).
RECURSIVE argsort_of(_, _)
argsort_of(keys, idx) ==
    IF idx = {} THEN {<<>>}
    ELSE LET low == CHOOSE i \in idx : \A j \in idx : keys[i] <= keys[j]
             ties == {i \in idx : keys[i] = keys[low]}
             orders == {p \in [1..Cardinality(ties) -> ties] :
                           \A a, b \in 1..Cardinality(ties) : a # b => p[a] # p[b]}
         IN  {p \o rest : p \in orders, rest \in argsort_of(keys, idx \ ties)}

\* A sort that orders the keys descending.
argsort_descending(keys) == argsort_of([i \in 1..Len(keys) |-> 0 - keys[i]], 1..Len(keys))

argsort(keys) == argsort_of(keys, 1..Len(keys))

\* The rows of df in the given order.
take(df, order) == DataFrame(df.columns, [k \in 1..Len(order) |-> df.rows[order[k]]])


\* pd.concat([a, b], axis=1) of two frames over the same index.
concat(a, b) ==
    DataFrame(a.columns \o b.columns, [i \in 1..Len(a.rows) |-> a.rows[i] \o b.rows[i]])

\* A frame that drops the schema: what is returned when the reindex is left out.
reindex_skipped(df, columns, fill_value) == df

\* df.reindex(columns=columns, fill_value=fill_value): exactly the labels columns,
\* in that order; a label df lacks is filled, a label of df not asked for is dropped.
reindex(df, columns, fill_value) ==
    LET at == Tuple([k \in 1..Len(columns) |->
                  IF columns[k] \in Range(df.columns) THEN loc(df.columns, columns[k])
                  ELSE 0])
    IN  DataFrame(columns, [i \in 1..Len(df.rows) |->
                               [k \in 1..Len(columns) |->
                                   IF at[k] = 0 THEN Val(fill_value) ELSE df.rows[i][at[k]]]])

(***************************************************************************)
(* preprocessing.py: the frozen schema.                                    *)
(***************************************************************************)
TRAINING_FEATURE_NAMES ==
    << "Season", "Round", "GridPosition", "Q1_s", "Q2_s", "Q3_s", "Position",
       "Abbreviation_ALB", "Abbreviation_ALO", "Abbreviation_ANT", "Abbreviation_BEA",
       "Abbreviation_BOR", "Abbreviation_BOT", "Abbreviation_BUT", "Abbreviation_COL",
       "Abbreviation_DEV", "Abbreviation_DIR", "Abbreviation_DOO", "Abbreviation_ERI",
       "Abbreviation_FIT", "Abbreviation_GAS", "Abbreviation_GIO", "Abbreviation_GRO",
       "Abbreviation_GUT", "Abbreviation_HAD", "Abbreviation_HAM", "Abbreviation_HAR",
       "Abbreviation_HUL", "Abbreviation_KUB", "Abbreviation_KVY", "Abbreviation_LAT",
       "Abbreviation_LAW", "Abbreviation_LEC", "Abbreviation_MAG", "Abbreviation_MAL",
       "Abbreviation_MAS", "Abbreviation_MAZ", "Abbreviation_MER", "Abbreviation_MSC",
       "Abbreviation_NAS", "Abbreviation_NOR", "Abbreviation_OCO", "Abbreviation_PAL",
       "Abbreviation_PER", "Abbreviation_PIA", "Abbreviation_RAI", "Abbreviation_RIC",
       "Abbreviation_ROS", "Abbreviation_RSS", "Abbreviation_RUS", "Abbreviation_SAI",
       "Abbreviation_SAR", "Abbreviation_SIR", "Abbreviation_STE", "Abbreviation_STR",
       "Abbreviation_TSU", "Abbreviation_VAN", "Abbreviation_VER", "Abbreviation_VET",
       "Abbreviation_WEH", "Abbreviation_ZHO",
       "TeamName_Alfa Romeo Racing", "TeamName_AlphaTauri", "TeamName_Alpine",
       "TeamName_Aston Martin", "TeamName_Ferrari", "TeamName_Force India",
       "TeamName_Haas F1 Team", "TeamName_Kick Sauber", "TeamName_Lotus F1",
       "TeamName_Manor Marussia", "TeamName_McLaren", "TeamName_Mercedes", "TeamName_RB",
       "TeamName_Racing Bulls", "TeamName_Racing Point", "TeamName_Red Bull",
       "TeamName_Red Bull Racing", "TeamName_Renault", "TeamName_Sauber",
       "TeamName_Toro Rosso", "TeamName_Williams",
       "EventName_Abu Dhabi Grand Prix", "EventName_Australian Grand Prix",
       "EventName_Austrian Grand Prix", "EventName_Azerbaijan Grand Prix",
       "EventName_Bahrain Grand Prix", "EventName_Belgian Grand Prix",
       "EventName_Brazilian Grand Prix", "EventName_British Grand Prix",
       "EventName_Canadian Grand Prix", "EventName_Chinese Grand Prix",
       "EventName_Dutch Grand Prix", "EventName_Eifel Grand Prix",
       "EventName_Emilia Romagna Grand Prix", "EventName_European Grand Prix",
       "EventName_French Grand Prix", "EventName_German Grand Prix",
       "EventName_Hungarian Grand Prix", "EventName_Italian Grand Prix",
       "EventName_Japanese Grand Prix", "EventName_Las Vegas Grand Prix",
       "EventName_Malaysian Grand Prix", "EventName_Mexican Grand Prix",
       "EventName_Mexico City Grand Prix", "EventName_Miami Grand Prix",
       "EventName_Monaco Grand Prix", "EventName_Portuguese Grand Prix",
       "EventName_Qatar Grand Prix", "EventName_Russian Grand Prix",
       "EventName_Sakhir Grand Prix", "EventName_Saudi Arabian Grand Prix",
       "EventName_Singapore Grand Prix", "EventName_Spanish Grand Prix",
       "EventName_Styrian Grand Prix", "EventName_São Paulo Grand Prix",
       "EventName_Turkish Grand Prix", "EventName_Tuscan Grand Prix",
       "EventName_United States Grand Prix" >>

numerical_cols_to_impute_with_zero == << "GridPosition", "Position", "Q1_s", "Q2_s", "Q3_s" >>

categorical_features_input == << "Abbreviation", "TeamName", "EventName" >>

numerical_features_input ==
    << "Season", "Round", "GridPosition", "Q1_s", "Q2_s", "Q3_s", "Position" >>

(***************************************************************************)
(* preprocessing.py: the fitted encoder.  The encoder is an artifact; the  *)
(* one the repository builds is dummy_ohe, fitted on the three vocabulary  *)
(* lists below.  OneHotEncoder.fit keeps each field's categories sorted,   *)
(* and the lists are written here in that order.                           *)
(***************************************************************************)
all_abbreviations ==
    << "ALB", "ALO", "ANT", "BEA", "BOR", "BOT", "BUT", "COL", "DEV", "DIR",
       "DOO", "ERI", "FIT", "GAS", "GIO", "GRO", "GUT", "HAD", "HAM", "HAR",
       "HUL", "KUB", "KVY", "LAT", "LAW", "LEC", "MAG", "MAL", "MAS", "MAZ",
       "MER", "MSC", "NAS", "NOR", "OCO", "PAL", "PER", "PIA", "RAI", "RIC",
       "ROS", "RSS", "RUS", "SAI", "SAR", "SIR", "STE", "STR", "TSU", "UNK",
       "VAN", "VER", "VET", "WEH", "ZHO" >>

all_team_names ==
    << "Alfa Romeo Racing", "AlphaTauri", "Alpine", "Aston Martin", "Ferrari",
       "Force India", "Haas F1 Team", "Kick Sauber", "Lotus F1", "Manor Marussia",
       "McLaren", "Mercedes", "New Team", "RB", "Racing Bulls", "Racing Point",
       "Red Bull", "Red Bull Racing", "Renault", "Sauber", "Toro Rosso", "Williams" >>

all_event_names ==
    << "Abu Dhabi Grand Prix", "Australian Grand Prix", "Austrian Grand Prix",
       "Azerbaijan Grand Prix", "Bahrain Grand Prix", "Belgian Grand Prix",
       "Brazilian Grand Prix", "British Grand Prix", "Canadian Grand Prix",
       "Chinese Grand Prix", "Dutch Grand Prix", "Eifel Grand Prix",
       "Emilia Romagna Grand Prix", "European Grand Prix", "French Grand Prix",
       "German Grand Prix", "Hungarian Grand Prix", "Italian Grand Prix",
       "Japanese Grand Prix", "Las Vegas Grand Prix", "Malaysian Grand Prix",
       "Mexican Grand Prix", "Mexico City Grand Prix", "Miami Grand Prix",
       "Monaco Grand Prix", "New Event", "Portuguese Grand Prix", "Qatar Grand Prix",
       "Russian Grand Prix", "Sakhir Grand Prix", "Saudi Arabian Grand Prix",
       "Singapore Grand Prix", "Spanish Grand Prix", "Styrian Grand Prix",
       "São Paulo Grand Prix", "Turkish Grand Prix", "Tuscan Grand Prix",
       "United States Grand Prix" >>

\* OneHotEncoder(drop=None, ...): "first" would leave each field's first category
\* without a column.
drop_first == "first"

drop == "None"

\* OneHotEncoder(..., handle_unknown='ignore'): "error" makes transform raise
\* ValueError on a value that was not fitted.
handle_unknown_error == "error"

handle_unknown == "ignore"

\* ohe_encoder.categories_, by input feature.
categories_(feature) ==
    CASE feature = "Abbreviation" -> all_abbreviations
      [] feature = "TeamName" -> all_team_names
      [] feature = "EventName" -> all_event_names

\* The categories of a feature that get an output column of the encoder.
encoded_categories(feature) ==
    IF drop = "first" THEN Tail(categories_(feature)) ELSE categories_(feature)

RECURSIVE Flatten(_)
Flatten(seqs) == IF seqs = <<>> THEN <<>> ELSE Head(seqs) \o Flatten(Tail(seqs))

\* ohe_encoder.get_feature_names_out(features): <feature>_<category>, feature by
\* feature, each feature's categories in fitted order.
get_feature_names_out(features) ==
    Flatten([f \in 1..Len(features) |->
        [k \in 1..Len(encoded_categories(features[f])) |->
            features[f] \o "_" \o encoded_categories(features[f])[k]]])

\* Whether transform knows the cell's value for the feature.
known(feature, cell) ==
    /\ ~isna(cell)
    /\ cell[1] \in Range(categories_(feature))

\* ohe_encoder.transform(df) for one row: a 0/1 value per output column.
transform_row(features, row) ==
    Flatten([f \in 1..Len(features) |->
        [k \in 1..Len(encoded_categories(features[f])) |->
            IF row[f] = Val(encoded_categories(features[f])[k]) THEN 1 ELSE 0]])

\* ohe_encoder.transform(df_categorical): the matrix, or ValueError on a value
\* that was not fitted when handle_unknown is "error".
transform(df) ==
    IF /\ handle_unknown = "error"
       /\ \E i \in 1..Len(df.rows) : \E f \in 1..Len(df.columns) :
              ~known(df.columns[f], df.rows[i][f])
    THEN [raised |-> "ValueError", matrix |-> <<>>]
    ELSE [raised |-> "None",
          matrix |-> Tuple([i \in 1..Len(df.rows) |->
                               transform_row(df.columns, df.rows[i])])]

(***************************************************************************)
(* preprocessing.py: preprocess_input.                                     *)
(***************************************************************************)
\* A cleaning step that drops the rows with a missing value instead of filling it.
impute_by_dropna(df, cols) ==
    DataFrame(df.columns,
              SelectSeq(df.rows, LAMBDA r :
                  \A k \in 1..Len(df.columns) : ~(df.columns[k] \in Range(cols) /\ isna(r[k]))))

\* for col in cols: if col in df.columns and df[col].isna().any():
\*     df.loc[df[col].isna(), col] = 0.0
impute_with_zero(df, cols) ==
    DataFrame(df.columns,
              [i \in 1..Len(df.rows) |->
                  [k \in 1..Len(df.columns) |->
                      IF df.columns[k] \in Range(cols) /\ isna(df.rows[i][k])
                      THEN Val(0) ELSE df.rows[i][k]]])

\* A loop that adds an absent column with a category the encoder was fitted on.
RECURSIVE add_missing_fitted(_, _)
add_missing_fitted(df, cols) ==
    IF cols = <<>> THEN df
    ELSE add_missing_fitted(
             IF Head(cols) \in Range(df.columns) THEN df
             ELSE assign(df, Head(cols), Val(categories_(Head(cols))[1])),
             Tail(cols))

\* for col in cols: if col not in df.columns: df[col] = 'Unknown'
RECURSIVE add_missing_categorical(_, _)
add_missing_categorical(df, cols) ==
    IF cols = <<>> THEN df
    ELSE add_missing_categorical(
             IF Head(cols) \in Range(df.columns) THEN df
             ELSE assign(df, Head(cols), Val("Unknown")),
             Tail(cols))

\* numerical_df_columns: the numerical features df has, in the list's order.
numerical_df_columns(df) ==
    SelectSeq(numerical_features_input, LAMBDA c : c \in Range(df.columns))

\* The caller's table as an object the function was handed: the object's identity
\* and the frame it holds.
Caller == 1

\* df = data: a second name for the caller's object, so that what is written
\* through df is written to the caller's table.
alias(object) == object

\* data.copy(): a new object that holds the frame of the first.
copy(object) == [id |-> object.id + 1, frame |-> object.frame]

\* preprocess_input(data): [raised, frame, data]; raised is "None" when the call
\* returns, frame is what it returns, and data is what the caller's table holds
\* after the call.  Lines 64-66 and 81 write to df.
preprocess_input(data) ==
    IF empty(data)
    THEN [raised |-> "None", frame |-> DataFrame(TRAINING_FEATURE_NAMES, <<>>), data |-> data]
    ELSE LET passed == [id |-> Caller, frame |-> data]
             copied == copy(passed)
             df == add_missing_categorical(
                       impute_with_zero(copied.frame, numerical_cols_to_impute_with_zero),
                       categorical_features_input)
             after == IF copied.id = passed.id THEN df ELSE passed.frame
             df_categorical == select(df, categorical_features_input)
             encoded_features == transform(df_categorical)
             encoded_df ==
                 DataFrame(get_feature_names_out(categorical_features_input),
                           [i \in 1..Len(df.rows) |->
                               [k \in 1..Len(encoded_features.matrix[i]) |->
                                   Val(encoded_features.matrix[i][k])]])
             numerical_df == select(df, numerical_df_columns(df))
             preprocessed_df == concat(numerical_df, encoded_df)
         IN  IF encoded_features.raised # "None"
             THEN [raised |-> encoded_features.raised, frame |-> DataFrame(<<>>, <<>>),
                   data |-> after]
             ELSE [raised |-> "None",
                   frame |-> reindex(preprocessed_df, TRAINING_FEATURE_NAMES, 0),
                   data |-> after]

(***************************************************************************)
(* Exceptions and artifact files.                                          *)
(***************************************************************************)
\* The base class of each exception class raised here.
base(exc) ==
    CASE exc = "FileNotFoundError" -> "OSError"
      [] exc = "PermissionError" -> "OSError"
      [] exc = "OSError" -> "Exception"
      [] exc = "EOFError" -> "Exception"
      [] exc = "UnpicklingError" -> "Exception"
      [] exc = "ValueError" -> "Exception"
      [] exc = "AttributeError" -> "Exception"
      [] exc = "KeyError" -> "Exception"
      [] exc = "SessionNotAvailableError" -> "Exception"
      [] exc = "Exception" -> "BaseException"
      [] OTHER -> "object"

RECURSIVE isinstance(_, _)
isinstance(exc, class) ==
    \/ exc = class
    \/ exc # "object" /\ isinstance(base(exc), class)

\* What an artifact file on disk can be.
FileStates == {"ok", "missing", "corrupt", "truncated", "unreadable"}

\* joblib.load(path) on a file in the given state: the object, or the exception.
joblib_load(file) ==
    CASE file = "ok" -> [raised |-> "None", value |-> "Artifact"]
      [] file = "missing" -> [raised |-> "FileNotFoundError", value |-> "None"]
      [] file = "corrupt" -> [raised |-> "UnpicklingError", value |-> "None"]
      [] file = "truncated" -> [raised |-> "EOFError", value |-> "None"]
      [] file = "unreadable" -> [raised |-> "PermissionError", value |-> "None"]

(***************************************************************************)
(* model_loader.py: load_model.                                            *)
(***************************************************************************)
\* A loader whose only handler is 'except FileNotFoundError'.
load_model_handles_not_found_only(exc) == isinstance(exc, "FileNotFoundError")

\* The handlers of load_model's try: except FileNotFoundError, except Exception.
load_model_handles(exc) ==
    isinstance(exc, "FileNotFoundError") \/ isinstance(exc, "Exception")

\* load_model(model_path): [raised, value, attempts]; attempts counts the calls of
\* joblib.load.
load_model(file) ==
    LET loaded_model == joblib_load(file)
    IN  IF loaded_model.raised = "None"
        THEN [raised |-> "None", value |-> loaded_model.value, attempts |-> 1]
        ELSE IF load_model_handles(loaded_model.raised)
        THEN [raised |-> "None", value |-> "None", attempts |-> 1]
        ELSE [raised |-> loaded_model.raised, value |-> "None", attempts |-> 1]

(***************************************************************************)
(* preprocessing.py: the module-level load of the encoder, run by the      *)
(* first import of the module.                                             *)
(***************************************************************************)
\* A module-level load that keeps a null encoder when the file is not found.
import_preprocessing_null_encoder(file) ==
    LET loaded == joblib_load(file)
    IN  IF loaded.raised = "None"
        THEN [raised |-> "None", ohe_encoder |-> "Loaded"]
        ELSE [raised |-> IF isinstance(loaded.raised, "FileNotFoundError")
                         THEN "None" ELSE loaded.raised,
              ohe_encoder |-> "None"]

\* try: ohe_encoder = joblib.load(...)
\* except FileNotFoundError: raise FileNotFoundError(...)
import_preprocessing(file) ==
    LET loaded == joblib_load(file)
    IN  IF loaded.raised = "None"
        THEN [raised |-> "None", ohe_encoder |-> "Loaded"]
        ELSE [raised |-> IF isinstance(loaded.raised, "FileNotFoundError")
                         THEN "FileNotFoundError" ELSE loaded.raised,
              ohe_encoder |-> "NotLoaded"]

\* What models/training_feature_names.joblib on disk can be: the list saved equal
\* to the hardcoded one or different from it, or a file that does not load.
SchemaFileStates == {"same", "differs", "missing", "corrupt"}

\* joblib.load of training_feature_names.joblib: the list, or the exception.
loaded_training_feature_names(file) ==
    CASE file = "same" -> [raised |-> "None", value |-> TRAINING_FEATURE_NAMES]
      [] file = "differs" -> [raised |-> "None", value |-> numerical_features_input]
      [] file = "missing" -> [raised |-> "FileNotFoundError", value |-> <<>>]
      [] file = "corrupt" -> [raised |-> "UnpicklingError", value |-> <<>>]

\* Lines 23-40: [raised, value], value the list the module's TRAINING_FEATURE_NAMES
\* names once the file was tried.  The file's list is compared and warned about,
\* never taken; FileNotFoundError and any Exception are caught.
module_schema(file) ==
    LET loaded == loaded_training_feature_names(file)
    IN  IF loaded.raised = "None"
        THEN [raised |-> "None", value |-> TRAINING_FEATURE_NAMES]
        ELSE IF isinstance(loaded.raised, "FileNotFoundError")
                \/ isinstance(loaded.raised, "Exception")
        THEN [raised |-> "None", value |-> TRAINING_FEATURE_NAMES]
        ELSE [raised |-> loaded.raised, value |-> <<>>]

(***************************************************************************)
(* utils.py: the provider's data, get_name and format_prediction_output.   *)
(***************************************************************************)
\* results_df['GridPosition'] = [float(i) for i in range(1, 21)]
GridPositions == 20

\* new_df['PredictedPosition_int'] = [int(i) for i in range(1, 21)]
RankPositions == 20

\* The seasons and rounds asked for.
Years == {2025}

Rounds == {1, 2}

\* quali_session.event['EventName']
EventName(round) == IF round = 1 THEN "Australian Grand Prix" ELSE "Chinese Grand Prix"

\* quali_session.results with n drivers: who drove for whom, and the three segment
\* times (milliseconds), missing for a driver eliminated before the segment.
QualiResults(n) ==
    DataFrame(<< "Abbreviation", "TeamName", "GridPosition", "Q1", "Q2", "Q3" >>,
              [i \in 1..n |->
                  << Val(all_abbreviations[i]),
                     Val(all_team_names[(((i - 1) \div 2) % Len(all_team_names)) + 1]),
                     Val(i),
                     Val(85000 + i),
                     IF i <= 15 THEN Val(84000 + i) ELSE NaN,
                     IF i <= 10 THEN Val(83000 + i) ELSE NaN >>])

\* What the provider answers to the qualifying fetch: an error, or the results.
QualiFetches ==
    {[raised |-> "SessionNotAvailableError", results |-> QualiResults(0)]}
    \cup {[raised |-> "None", results |-> QualiResults(n)] : n \in 0..MaxDrivers}

\* The provider's answer to the lap fetch when every driver of the results set a lap.
FullLaps(results) ==
    [raised |-> "None",
     drivers |-> [i \in 1..Len(results.rows) |-> cell_of(results, i, "Abbreviation")[1]]]

\* What the provider answers to the lap fetch of get_name: an error, or the
\* drivers that set a lap (all of them, or all but the last two).
NameFetches(results) ==
    LET drivers == FullLaps(results).drivers
    IN  { [raised |-> "SessionNotAvailableError", drivers |-> <<>>],
          FullLaps(results),
          [raised |-> "None",
           drivers |-> SubSeq(drivers, 1, IF Len(drivers) > 2 THEN Len(drivers) - 2 ELSE 0)] }

\* sess.get_driver(drv)['FullName']
FullName(drv) == "Driver " \o drv

\* A get_name without its try: the provider's error leaves it.
get_name_unguarded(fetch) ==
    [raised |-> fetch.raised,
     frame |-> DataFrame(<< "Abbreviation", "FullName" >>,
                         [i \in 1..Len(fetch.drivers) |->
                             << Val(fetch.drivers[i]), Val(FullName(fetch.drivers[i])) >>])]

\* get_name(year, round): [raised, frame].  Any Exception of the fetch is caught and
\* an empty frame returned.
get_name(fetch) ==
    IF fetch.raised # "None" /\ isinstance(fetch.raised, "Exception")
    THEN [raised |-> "None", frame |-> DataFrame(<< "Abbreviation", "FullName" >>, <<>>)]
    ELSE [raised |-> fetch.raised,
          frame |-> DataFrame(<< "Abbreviation", "FullName" >>,
                              [i \in 1..Len(fetch.drivers) |->
                                  << Val(fetch.drivers[i]),
                                     Val(FullName(fetch.drivers[i])) >>])]

\* results_df[dst] = results_df[src].dt.total_seconds().fillna(fill)
total_seconds_fillna(df, src, dst, fill) ==
    assign_values(df, dst,
                  [i \in 1..Len(df.rows) |->
                      IF isna(cell_of(df, i, src)) THEN Val(fill) ELSE cell_of(df, i, src)])

\* The rankings format_prediction_output builds from merged_df sorted by
\* PredictedPosition_int: one entry per row.
format_prediction_output(top) ==
    [k \in 1..Len(top.rows) |->
        [position |-> cell_of(top, k, "PredictedPosition_int")[1],
         driver |-> cell_of(top, k, "FullName"),
         team |-> cell_of(top, k, "TeamName")]]

\* The rows that may share a score: the first two, one in the middle, the last.
TiedRows(n) == {1, 2, (n + 1) \div 2, n} \cap (1..n)

\* The scores model.predict gives n rows: distinct scores ascending or descending
\* in row order, except that at most MaxTie of the rows TiedRows share a score.
ScoreVectors(n) ==
    IF n = 0 THEN {<<>>}
    ELSE {Tuple([i \in 1..n |->
              LET j == IF i \in ties THEN CHOOSE m \in ties : \A x \in ties : m <= x ELSE i
              IN  IF ascending THEN j ELSE n + 1 - j]) :
             ascending \in BOOLEAN,
             ties \in {{f[k] : k \in 1..MaxTie} : f \in [1..MaxTie -> TiedRows(n)]}}

(***************************************************************************)
(* utils.py: the steps of get_predictions.                                 *)
(***************************************************************************)
\* Lines 67-90: the provider's results made into the aligner's input.
\* [raised, frame]: the GridPosition list raises ValueError on a length mismatch.
build_results_df(year, round, results) ==
    LET stamped == assign(assign(assign(results, "Season", Val(year)),
                                 "Round", Val(round)),
                          "EventName", Val(EventName(round)))
        timed == total_seconds_fillna(
                     total_seconds_fillna(
                         total_seconds_fillna(stamped, "Q1", "Q1_s", 9999000),
                         "Q2", "Q2_s", 9999000),
                     "Q3", "Q3_s", 9999000)
        chosen == select(timed, << "Season", "Round", "EventName", "Abbreviation",
                                   "TeamName", "GridPosition", "Q1_s", "Q2_s", "Q3_s" >>)
    IN  assign_list(chosen, "GridPosition", [i \in 1..GridPositions |-> Val(i)])

\* Lines 92-93: preprocess_input(results_df).drop('Position', axis=1); a null
\* encoder has no transform (AttributeError).
model_features(encoder, results_df) ==
    IF encoder # "Loaded" /\ ~empty(results_df)
    THEN [raised |-> "AttributeError", frame |-> DataFrame(<<>>, <<>>)]
    ELSE LET preprocessed_data == preprocess_input(results_df)
         IN  IF preprocessed_data.raised # "None" THEN preprocessed_data
             ELSE [raised |-> "None", frame |-> drop_column(preprocessed_data.frame, "Position")]

\* model.predict(preprocessed_data): what it raises.  A null model has no predict
\* (AttributeError); the regressor rejects a missing value (ValueError).
predict_raises(loaded, features) ==
    IF loaded = "None" THEN "AttributeError"
    ELSE IF \E i \in 1..Len(features.rows) : \E k \in 1..Len(features.columns) :
                isna(features.rows[i][k])
    THEN "ValueError"
    ELSE "None"

\* Lines 98-101: the drivers with their scores, sorted by score into the given
\* order, numbered 1..20 in that order.  [raised, frame].
ranked(results_df, predictions, order) ==
    LET new_df == assign_values(select(results_df, << "Abbreviation", "TeamName" >>),
                                "PredictedPosition",
                                [i \in 1..Len(results_df.rows) |-> Val(predictions[i])])
    IN  assign_list(take(new_df, order), "PredictedPosition_int",
                    [i \in 1..RankPositions |-> Val(i)])

(***************************************************************************)
(* app.py: the body POST /predict answers with.                            *)
(***************************************************************************)
hardcoded_rankings ==
    << [position |-> 1, driver |-> Val("Max Verstappen"), team |-> Val("Red Bull")],
       [position |-> 2, driver |-> Val("Lewis Hamilton"), team |-> Val("Mercedes")],
       [position |-> 3, driver |-> Val("Charles Leclerc"), team |-> Val("Ferrari")],
       [position |-> 4, driver |-> Val("Lando Norris"), team |-> Val("McLaren")],
       [position |-> 5, driver |-> Val("Oscar Piastri"), team |-> Val("McLaren")],
       [position |-> 6, driver |-> Val("George Russell"), team |-> Val("Mercedes")],
       [position |-> 7, driver |-> Val("Carlos Sainz"), team |-> Val("Ferrari")],
       [position |-> 8, driver |-> Val("Fernando Alonso"), team |-> Val("Aston Martin")],
       [position |-> 9, driver |-> Val("Lance Stroll"), team |-> Val("Aston Martin")],
       [position |-> 10, driver |-> Val("Pierre Gasly"), team |-> Val("Alpine")] >>

\* The JSON bodies posted: with the key 'race', or without it.
Requests == {[race |-> r] : r \in Rounds} \cup {[round |-> r] : r \in Rounds}

\* predict(): the response to a request body.
predict(body) ==
    IF "race" \notin DOMAIN body
    THEN [status |-> 500, raised |-> "KeyError", body |-> [race |-> 0, prediction |-> "",
                                                          rankings |-> <<>>]]
    ELSE [status |-> 200, raised |-> "None",
          body |-> [race |-> body.race,
                    prediction |-> "Prediction for " \o ToString(body.race) \o " completed!",
                    rankings |-> hardcoded_rankings]]

(***************************************************************************)
(* State.                                                                  *)
(***************************************************************************)
VARIABLES
    data,          \* the caller's table handed to preprocess_input
    aligned,       \* what preprocess_input(data) gave, or NotCalled
    encoderFile,   \* models/one_hot_encoder.joblib on disk
    modelFile,     \* models/V1_GradientBoosting_F1_Race_Predictor_model.joblib on disk
    quali,         \* what the provider answers to the qualifying fetch of the session
    laps,          \* what the provider answers to the lap fetch of get_name
    scores,        \* what the model predicts for the session's rows
    ohe_encoder,   \* preprocessing.ohe_encoder: "NotLoaded" until the module is imported
    model,         \* what the last direct call of load_model gave, or NotCalled
    prediction,    \* the outcome of the last call of get_predictions, or NoPrediction
    response,      \* the last response of POST /predict, or NoResponse
    original,      \* the table as the caller built it, before any call
    previous,      \* what the call of preprocess_input before the last gave, or NotCalled
    schemaFile,    \* models/training_feature_names.joblib on disk
    feature_names  \* preprocessing.TRAINING_FEATURE_NAMES: <<>> until the module is imported

vars == << data, aligned, encoderFile, modelFile, quali, laps, scores, ohe_encoder, model,
          prediction, response, original, previous, schemaFile, feature_names >>

\* The files and the provider: what the service does not write.
environment == << encoderFile, modelFile, quali, laps, scores, schemaFile >>

\* What the caller of preprocess_input keeps between its calls.
calls == << original, previous >>

NotCalled == [raised |-> "NotCalled"]

NoModel == [raised |-> "NotCalled", value |-> "None", attempts |-> 0]

NoResponse == [status |-> 0, raised |-> "None",
               body |-> [race |-> 0, prediction |-> "", rankings |-> <<>>]]

\* No call of get_predictions yet.  Of a call: the exception that left it (raised)
\* and the step it left from (at), or "None" and the rankings returned; the rows
\* fetched, which provider fetch failed, what load_model gave and in how many
\* attempts, the scores, and the index of new_df once sorted (order[k] is the
\* fetched row ranked k).
NoPrediction ==
    [raised |-> "NotCalled", at |-> "", year |-> 0, round |-> 0, fetched |-> 0,
     provider_error |-> "none", model |-> "NotLoaded", attempts |-> 0,
     scores |-> <<>>, order |-> <<>>, teams |-> <<>>, rankings |-> <<>>]

NoTable == DataFrame(<<>>, <<>>)

(***************************************************************************)
(* The service: direct model loads, prediction requests to the             *)
(* orchestrator, and POST /predict.                                        *)
(***************************************************************************)
\* The provider's answer to the qualifying fetch of a session of 20 drivers.
FullQuali == [raised |-> "None", results |-> QualiResults(GridPositions)]

\* Any state of the two files with the provider well; or the files well with any
\* answer to the qualifying fetch; or the files and the qualifying fetch well with
\* any scores and any answer to the lap fetch.
Init ==
    /\ data = NoTable
    /\ aligned = NotCalled
    /\ ohe_encoder = "NotLoaded"
    /\ model = NoModel
    /\ prediction = NoPrediction
    /\ response = NoResponse
    /\ original = NoTable
    /\ previous = NotCalled
    /\ feature_names = <<>>
    /\ \/ /\ encoderFile \in FileStates
          /\ modelFile \in FileStates
          /\ schemaFile \in SchemaFileStates
          /\ quali = FullQuali
          /\ laps = FullLaps(quali.results)
          /\ scores = [i \in 1..GridPositions |-> i]
       \/ /\ encoderFile = "ok"
          /\ modelFile = "ok"
          /\ schemaFile = "same"
          /\ quali \in QualiFetches
          /\ laps = FullLaps(quali.results)
          /\ scores = [i \in 1..GridPositions |-> i]
       \/ /\ encoderFile = "ok"
          /\ modelFile = "ok"
          /\ schemaFile = "same"
          /\ quali = FullQuali
          /\ laps \in NameFetches(quali.results)
          /\ scores \in ScoreVectors(GridPositions)

\* model = load_model(model_path)
LoadModel ==
    /\ model' = load_model(modelFile)
    /\ UNCHANGED << data, aligned, environment, ohe_encoder, prediction, response, calls,
                    feature_names >>

\* get_predictions(year, round) in a process whose encoder is as given, with the
\* files and the provider as they are: the outcomes the call can have, each with
\* the encoder the process is left with.  The call goes from its imports to its
\* return or to the exception that leaves it.
get_predictions(year, round, encoder) ==
    LET call == [NoPrediction EXCEPT !.year = year, !.round = round]
        imported == IF encoder = "NotLoaded"
                    THEN import_preprocessing(encoderFile)
                    ELSE [raised |-> "None", ohe_encoder |-> encoder]
        schema == IF encoder = "NotLoaded" /\ imported.raised = "None"
                  THEN module_schema(schemaFile)
                  ELSE [raised |-> "None", value |-> feature_names]
        fetched == [call EXCEPT !.fetched = Len(quali.results.rows)]
        results_df == build_results_df(year, round, quali.results)
        preprocessed_data == model_features(imported.ohe_encoder, results_df.frame)
        loaded == load_model(modelFile)
        with_model == [fetched EXCEPT !.model = loaded.value, !.attempts = loaded.attempts]
        refused == predict_raises(loaded.value, preprocessed_data.frame)
        name_df == get_name(laps)
        scored == [with_model EXCEPT
                      !.scores = scores,
                      !.teams = [i \in 1..Len(results_df.frame.rows) |->
                                    cell_of(results_df.frame, i, "TeamName")],
                      !.provider_error = IF laps.raised # "None" THEN "names" ELSE "none"]
        left(outcome) == [prediction |-> outcome, ohe_encoder |-> imported.ohe_encoder,
                          feature_names |-> schema.value]
        ranking(order) ==
            LET new_df == ranked(results_df.frame, scores, order)
                merged_df == merge_left(new_df.frame, name_df.frame, "Abbreviation")
                placed == [scored EXCEPT !.order = order]
            IN  IF new_df.raised # "None"
                THEN {left([placed EXCEPT !.raised = new_df.raised,
                                          !.at = "PredictedPosition_int"])}
                ELSE IF name_df.raised # "None"
                THEN {left([placed EXCEPT !.raised = name_df.raised, !.at = "get_name"])}
                ELSE {left([placed EXCEPT
                               !.raised = "None",
                               !.at = "return",
                               !.rankings = format_prediction_output(take(merged_df, top))]) :
                         top \in argsort([k \in 1..Len(merged_df.rows) |->
                                    cell_of(merged_df, k, "PredictedPosition_int")[1]])}
    IN  IF imported.raised # "None"
        THEN {left([call EXCEPT !.raised = imported.raised, !.at = "import"])}
        ELSE IF schema.raised # "None"
        THEN {left([call EXCEPT !.raised = schema.raised, !.at = "import"])}
        ELSE IF quali.raised # "None"
        THEN {left([call EXCEPT !.raised = quali.raised, !.at = "fetch",
                                !.provider_error = "quali"])}
        ELSE IF results_df.raised # "None"
        THEN {left([fetched EXCEPT !.raised = results_df.raised, !.at = "GridPosition"])}
        ELSE IF preprocessed_data.raised # "None"
        THEN {left([fetched EXCEPT !.raised = preprocessed_data.raised,
                                   !.at = "preprocess_input"])}
        ELSE IF loaded.raised # "None"
        THEN {left([with_model EXCEPT !.raised = loaded.raised, !.at = "load_model"])}
        ELSE IF refused # "None"
        THEN {left([with_model EXCEPT !.raised = refused, !.at = "predict"])}
        ELSE UNION {ranking(order) : order \in argsort(scores)}

\* A call of get_predictions.
GetPredictions ==
    \E year \in Years, round \in Rounds :
        \E outcome \in get_predictions(year, round, ohe_encoder) :
            /\ prediction' = outcome.prediction
            /\ ohe_encoder' = outcome.ohe_encoder
            /\ feature_names' = outcome.feature_names
            /\ UNCHANGED << data, aligned, environment, model, response, calls >>

\* POST /predict with a JSON body.
Predict ==
    /\ \E body \in Requests : response' = predict(body)
    /\ UNCHANGED << data, aligned, environment, ohe_encoder, model, prediction, calls,
                    feature_names >>

Next == LoadModel \/ GetPredictions \/ Predict

Spec == Init /\ [][Next]_vars

(***************************************************************************)
(* The tables preprocess_input is applied to.                              *)
(***************************************************************************)
\* The columns a caller may pass: those of dummy_raw_data_for_test.
InputColumns ==
    << "Season", "Round", "GridPosition", "Position", "Q1_s", "Q2_s", "Q3_s",
       "Abbreviation", "TeamName", "EventName" >>

\* A row over all the input columns: the three category cells given, the numeric
\* cells derived from the grid position, except for those named in missing.
SampleRow(abbreviation, team, event, grid, missing) ==
    [k \in 1..Len(InputColumns) |->
        LET c == InputColumns[k]
        IN  IF c \in missing THEN NaN
            ELSE CASE c = "Season" -> Val(2024)
                   [] c = "Round" -> Val(5)
                   [] c = "GridPosition" -> Val(grid)
                   [] c = "Position" -> Val(grid + 1)
                   [] c = "Q1_s" -> Val(85000 + grid)
                   [] c = "Q2_s" -> Val(84000 + grid)
                   [] c = "Q3_s" -> Val(83000 + grid)
                   [] c = "Abbreviation" -> abbreviation
                   [] c = "TeamName" -> team
                   [] c = "EventName" -> event]

\* Category cells that were never fitted: new values, and a missing one.
UnfittedCells == {Val("NEW"), Val(""), NaN}

CategoryCells(feature) == {Val(v) : v \in Range(categories_(feature))} \cup UnfittedCells

\* Rows with one category field swept over every fitted and unfitted value.
SweepRows ==
    {SampleRow(a, Val("Ferrari"), Val("Monaco Grand Prix"), 3, {}) :
        a \in CategoryCells("Abbreviation")}
    \cup {SampleRow(Val("VER"), t, Val("Monaco Grand Prix"), 3, {}) :
              t \in CategoryCells("TeamName")}
    \cup {SampleRow(Val("VER"), Val("Red Bull Racing"), e, 3, {}) :
              e \in CategoryCells("EventName")}

\* Rows with any set of numeric cells missing.
MissingRows ==
    {SampleRow(Val("LEC"), Val("Ferrari"), Val("British Grand Prix"), 2, m) :
        m \in SUBSET Range(numerical_features_input)}

\* The rows the multi-row tables are made of.
MixRows ==
    { SampleRow(Val("VER"), Val("Red Bull Racing"), Val("Monaco Grand Prix"), 1, {}),
      SampleRow(Val("NOR"), Val("McLaren"), Val("British Grand Prix"), 15,
                {"Position", "Q2_s"}),
      SampleRow(Val("NEW"), Val("New Team"), Val("New Event"), 5, {"Q1_s"}),
      SampleRow(Val("UNK"), NaN, Val("Test Event"), 20, {"GridPosition", "Q3_s", "Season"}) }

\* The column lists of the tables: all the input columns, all but one, one alone,
\* and none.
ColumnLists ==
    {InputColumns, <<>>}
    \cup {SelectSeq(InputColumns, LAMBDA c : c # d) : d \in Range(InputColumns)}
    \cup {<< d >> : d \in Range(InputColumns)}

\* The table with the given columns of the given full rows.
Table(columns, rows) == select(DataFrame(InputColumns, rows), columns)

Inputs ==
    {Table(InputColumns, << r >>) : r \in SweepRows \cup MissingRows}
    \cup {Table(cs, rs) : cs \in ColumnLists,
                          rs \in UNION {[1..n -> MixRows] : n \in 0..MaxRows}}

(***************************************************************************)
(* The aligner applied to a bounded set of tables.                         *)
(***************************************************************************)
InitAlign ==
    /\ data \in Inputs
    /\ aligned = NotCalled
    /\ encoderFile = "ok"
    /\ modelFile = "ok"
    /\ quali = FullQuali
    /\ laps = [raised |-> "None", drivers |-> <<>>]
    /\ scores = <<>>
    /\ ohe_encoder = "Loaded"
    /\ model = NoModel
    /\ prediction = NoPrediction
    /\ response = NoResponse
    /\ original = data
    /\ previous = NotCalled
    /\ schemaFile = "same"
    /\ feature_names = module_schema(schemaFile).value

\* preprocessed = preprocess_input(data)
PreprocessInput ==
    /\ aligned = NotCalled
    /\ \E preprocessed \in {preprocess_input(data)} :
           /\ aligned' = preprocessed
           /\ data' = preprocessed.data
    /\ UNCHANGED << environment, ohe_encoder, model, prediction, response, calls,
                    feature_names >>

NextAlign == PreprocessInput

SpecAlign == InitAlign /\ [][NextAlign]_vars

(***************************************************************************)
(* A caller that applies the aligner to its table again and again, in a    *)
(* process that imported preprocessing with any schema file on disk.       *)
(***************************************************************************)
InitCalls ==
    /\ data \in Inputs
    /\ original = data
    /\ aligned = NotCalled
    /\ previous = NotCalled
    /\ encoderFile = "ok"
    /\ modelFile = "ok"
    /\ schemaFile \in SchemaFileStates
    /\ quali = FullQuali
    /\ laps = [raised |-> "None", drivers |-> <<>>]
    /\ scores = <<>>
    /\ ohe_encoder = import_preprocessing(encoderFile).ohe_encoder
    /\ feature_names = module_schema(schemaFile).value
    /\ model = NoModel
    /\ prediction = NoPrediction
    /\ response = NoResponse

\* preprocessed = preprocess_input(data), after any number of earlier calls.
CallPreprocessInput ==
    /\ \E preprocessed \in {preprocess_input(data)} :
           /\ aligned' = preprocessed
           /\ data' = preprocessed.data
    /\ previous' = aligned
    /\ UNCHANGED << environment, ohe_encoder, model, prediction, response, original,
                    feature_names >>

NextCalls == CallPreprocessInput

SpecCalls == InitCalls /\ [][NextCalls]_vars

(***************************************************************************)
(* Reading the aligner's input and output.                                 *)
(***************************************************************************)
\* The aligner has been applied to data.
Aligned == aligned.raised # "NotCalled"

startswith(name, prefix) ==
    Len(name) >= Len(prefix) /\ SubSeq(name, 1, Len(prefix)) = prefix

\* The schema columns of a category field: those named <field>_<category>.
FieldColumns(field) ==
    {c \in Range(TRAINING_FEATURE_NAMES) : startswith(c, field \o "_")}

\* The category a one-hot column name stands for.
DecodeColumn(field, c) == SubSeq(c, Len(field) + 2, Len(c))

\* The columns of a field that are set in row i of the output.
SetColumns(field, i) ==
    {c \in FieldColumns(field) : cell_of(aligned.frame, i, c) = Val(1)}

\* The category field of row i of data holds a present, fitted value.
Fitted(field, i) ==
    has_column(data, field) /\ known(field, cell_of(data, i, field))

\* The category field of row i of data holds a present value that was not fitted.
Unfitted(field, i) ==
    /\ has_column(data, field)
    /\ ~isna(cell_of(data, i, field))
    /\ ~known(field, cell_of(data, i, field))

(***************************************************************************)
(* C1.  For every table (any number of rows including none, any of the     *)
(* input columns absent, any category values) preprocess_input returns,    *)
(* and the returned frame's column list is exactly TRAINING_FEATURE_NAMES: *)
(* the same labels in the same order, none extra and none missing.         *)
(***************************************************************************)
C1_ColumnsAreTheSchema ==
    Aligned => /\ aligned.raised = "None"
               /\ aligned.frame.columns = TRAINING_FEATURE_NAMES

\* A two-row table that lacks a column and holds a fitted category the schema
\* has no column for has been aligned.
C1_Witness ==
    /\ Aligned
    /\ Len(data.rows) = 2
    /\ ~has_column(data, "Q2_s") /\ has_column(data, "TeamName")
    /\ \E i \in 1..Len(data.rows) : cell_of(data, i, "TeamName") = Val("New Team")
    /\ Len(aligned.frame.columns) = Len(TRAINING_FEATURE_NAMES)

(***************************************************************************)
(* C5.  A value of Abbreviation, TeamName or EventName that is not in the  *)
(* fitted vocabulary gives 0 in every output column of that field, in that *)
(* row, and the call does not raise.                                       *)
(***************************************************************************)
C5_UnknownCategoryIsAllZero ==
    Aligned =>
        \A i \in 1..Len(data.rows) : \A f \in Range(categorical_features_input) :
            Unfitted(f, i) =>
                /\ aligned.raised = "None"
                /\ Len(aligned.frame.rows) = Len(data.rows)
                /\ \A c \in FieldColumns(f) : cell_of(aligned.frame, i, c) = Val(0)

\* A row whose Abbreviation is the unfitted 'NEW' has been aligned, next to a row
\* whose Abbreviation is fitted and set.
C5_Witness ==
    /\ Aligned
    /\ aligned.raised = "None"
    /\ \E i, j \in 1..Len(data.rows) :
          /\ Unfitted("Abbreviation", i)
          /\ cell_of(data, i, "Abbreviation") = Val("NEW")
          /\ SetColumns("Abbreviation", i) = {}
          /\ SetColumns("Abbreviation", j) # {}

(***************************************************************************)
(* C6.  Round trip.  As claimed: for every row whose Abbreviation,         *)
(* TeamName and EventName are all in the encoder's vocabulary, each field  *)
(* has exactly one output column set to 1, and that column's name gives    *)
(* back the row's category.                                                *)
(***************************************************************************)
RoundTrip(f, i) ==
    /\ Cardinality(SetColumns(f, i)) = 1
    /\ \A c \in SetColumns(f, i) : Val(DecodeColumn(f, c)) = cell_of(data, i, f)

C6_RoundTripOfFittedValues ==
    Aligned =>
        \A i \in 1..Len(data.rows) :
            (\A f \in Range(categorical_features_input) : Fitted(f, i)) =>
                /\ aligned.raised = "None"
                /\ \A f \in Range(categorical_features_input) : RoundTrip(f, i)

\* The fitted value of the field in row i has a column in the schema.
InSchema(f, i) ==
    /\ Fitted(f, i)
    /\ (f \o "_" \o cell_of(data, i, f)[1]) \in Range(TRAINING_FEATURE_NAMES)

\* C6 as amended: the round trip holds for every row whose three values are
\* fitted and have a column in TRAINING_FEATURE_NAMES; a fitted value the schema
\* has no column for (UNK, New Team, New Event) leaves its field all zero.
C6_RoundTripOfSchemaValues ==
    Aligned =>
        \A i \in 1..Len(data.rows) :
            /\ (\A f \in Range(categorical_features_input) : InSchema(f, i)) =>
                   /\ aligned.raised = "None"
                   /\ \A f \in Range(categorical_features_input) : RoundTrip(f, i)
            /\ \A f \in Range(categorical_features_input) :
                   (Fitted(f, i) /\ ~InSchema(f, i)) =>
                       aligned.raised = "None" /\ SetColumns(f, i) = {}

\* A row of three fitted schema values, the first category of its field among
\* them, has been aligned and decoded.
C6_Witness ==
    /\ Aligned
    /\ aligned.raised = "None"
    /\ \E i \in 1..Len(data.rows) :
          /\ \A f \in Range(categorical_features_input) : InSchema(f, i)
          /\ cell_of(data, i, "Abbreviation") = Val("ALB")
          /\ SetColumns("Abbreviation", i) = {"Abbreviation_ALB"}
          /\ SetColumns("TeamName", i) = {"TeamName_Ferrari"}

(***************************************************************************)
(* C7.  Every missing value of GridPosition, Position, Q1_s, Q2_s or Q3_s  *)
(* is 0.0 in the same row and column of the output; the call does not      *)
(* raise, and the output has the input's rows, in the input's order.       *)
(***************************************************************************)
C7_MissingNumericIsZero ==
    (Aligned /\ \E c \in Range(numerical_cols_to_impute_with_zero) : has_column(data, c)) =>
        /\ aligned.raised = "None"
        /\ Len(aligned.frame.rows) = Len(data.rows)
        /\ \A i \in 1..Len(data.rows) :
               \A c \in Range(numerical_cols_to_impute_with_zero) :
                   has_column(data, c) =>
                       cell_of(aligned.frame, i, c) =
                           IF isna(cell_of(data, i, c)) THEN Val(0) ELSE cell_of(data, i, c)

\* A two-row table whose second row lacks its Q2_s has been aligned: the row is
\* kept, after the first, with 0 for Q2_s.
C7_Witness ==
    /\ Aligned
    /\ Len(data.rows) = 2
    /\ has_column(data, "Q2_s") /\ has_column(data, "GridPosition")
    /\ ~isna(cell_of(data, 1, "Q2_s")) /\ isna(cell_of(data, 2, "Q2_s"))
    /\ cell_of(data, 1, "GridPosition") # cell_of(data, 2, "GridPosition")
    /\ Len(aligned.frame.rows) = 2
    /\ cell_of(aligned.frame, 2, "Q2_s") = Val(0)

(***************************************************************************)
(* Claims about the service.                                               *)
(***************************************************************************)
\* get_predictions has been called, and has returned or raised.
Called == prediction.raised # "NotCalled"

\* The call returned rankings.
Returned == prediction.raised = "None"

\* Both artifact files are well.
FilesOk == encoderFile = "ok" /\ modelFile = "ok"

\* The returned rankings are numbered 1, 2, ... in the order listed.
Numbered == \A k \in 1..Len(prediction.rankings) : prediction.rankings[k].position = k

\* order lists every fetched row once.
OrderIsPermutation ==
    /\ Len(prediction.order) = prediction.fetched
    /\ \A i \in 1..prediction.fetched : \E k \in 1..Len(prediction.order) : prediction.order[k] = i

\* Entry k of the rankings is the fetched row order[k], and no row ranked later
\* has a smaller score.
ByAscendingScore ==
    /\ OrderIsPermutation
    /\ \A k \in 1..Len(prediction.rankings) :
           prediction.rankings[k].team = prediction.teams[prediction.order[k]]
    /\ \A a, b \in 1..Len(prediction.order) :
           a < b => prediction.scores[prediction.order[a]] <= prediction.scores[prediction.order[b]]

(***************************************************************************)
(* C2.  As claimed: whatever the number N of rows the qualifying fetch     *)
(* returns, get_predictions returns N ranking entries, numbered 1..N in    *)
(* the order listed, entry k being the row with the k-th smallest score.   *)
(***************************************************************************)
C2_EveryFetchIsRankedOneToN ==
    (Called /\ FilesOk /\ quali.raised = "None") =>
        /\ Returned
        /\ Len(prediction.rankings) = Len(quali.results.rows)
        /\ Numbered
        /\ ByAscendingScore

C4_RankingsAreTheOrchestrators ==
    response.status = 200 =>
        \E year \in Years :
            \E outcome \in get_predictions(year, response.body.race, ohe_encoder) :
                /\ outcome.prediction.raised = "None"
                /\ response.body.rankings = outcome.prediction.rankings

(***************************************************************************)
(* C8.  load_model never raises.  It returns None when the file is missing *)
(* or cannot be deserialized, whatever the reason, and a model only when   *)
(* the deserialization succeeded; it calls joblib.load once.  The same     *)
(* holds of the call get_predictions makes.                                *)
(***************************************************************************)
C8_LoadModelNeverRaises ==
    /\ model.raised # "NotCalled" =>
           /\ model.raised = "None"
           /\ modelFile # "ok" => model.value = "None"
           /\ model.value # "None" => modelFile = "ok"
           /\ model.attempts = 1
    /\ Called =>
           /\ prediction.at # "load_model"
           /\ prediction.attempts <= 1
           /\ prediction.attempts = 1 =>
                  (prediction.model # "None" <=> modelFile = "ok")

\* load_model was called on a file that is there but cannot be deserialized,
\* and returned None.
C8_Witness ==
    /\ modelFile = "corrupt"
    /\ model.raised = "None"
    /\ model.value = "None"
    /\ model.attempts = 1

(***************************************************************************)
(* C9.  As claimed: an error of the data provider, at either fetch, does   *)
(* not abort get_predictions, which returns rankings whose driver names    *)
(* are null.                                                               *)
(***************************************************************************)
NullNames ==
    /\ Returned
    /\ prediction.rankings # <<>>
    /\ \A k \in 1..Len(prediction.rankings) : isna(prediction.rankings[k].driver)

C9_ProviderErrorIsSwallowed ==
    (Called /\ FilesOk /\ (quali.raised # "None" \/ laps.raised # "None")) => NullNames

\* C9 as amended: an error of the lap fetch of get_name is swallowed, and the
\* rankings are returned, complete, with null driver names; an error of the
\* qualifying fetch leaves get_predictions, which returns no rankings.
C9_OnlyTheNameFetchIsSwallowed ==
    /\ (Called /\ FilesOk /\ quali.raised = "None" /\ laps.raised # "None") =>
           /\ NullNames
           /\ prediction.provider_error = "names"
           /\ Len(prediction.rankings) = prediction.fetched
           /\ Numbered
           /\ ByAscendingScore
    /\ (Called /\ FilesOk /\ quali.raised # "None") =>
           /\ prediction.raised = quali.raised
           /\ prediction.at = "fetch"
           /\ prediction.rankings = <<>>

\* The lap fetch failed and rankings of 20 teams without driver names were
\* returned.
C9_Witness ==
    /\ laps.raised = "SessionNotAvailableError"
    /\ NullNames
    /\ Len(prediction.rankings) = GridPositions
    /\ prediction.rankings[1].team = prediction.teams[prediction.order[1]]
    /\ ~isna(prediction.rankings[1].team)

(***************************************************************************)
(* C10.  As claimed: a missing artifact file, the model's or the           *)
(* encoder's, raises nothing when it is loaded and gives a null object;    *)
(* get_predictions fails when it uses the object, returns no rankings and  *)
(* does not load again.                                                    *)
(***************************************************************************)
C10_MissingArtifactFailsOnlyAtUse ==
    (Called /\ (encoderFile = "missing" \/ modelFile = "missing")) =>
        /\ ~Returned
        /\ prediction.at \in {"preprocess_input", "predict"}
        /\ prediction.rankings = <<>>
        /\ prediction.attempts <= 1

\* C10 as amended: a missing model file gives a null model without an exception,
\* and get_predictions fails when it calls predict on it; a missing encoder file
\* raises FileNotFoundError when preprocessing is imported, and no encoder is
\* kept.  Either way get_predictions raises, returns no rankings, and the model
\* is loaded at most once.
C10_NullModelButNoNullEncoder ==
    /\ (Called /\ encoderFile = "ok" /\ modelFile = "missing" /\ quali = FullQuali) =>
           /\ prediction.raised = "AttributeError"
           /\ prediction.at = "predict"
           /\ prediction.model = "None"
           /\ prediction.attempts = 1
           /\ prediction.rankings = <<>>
    /\ (Called /\ encoderFile = "missing") =>
           /\ prediction.raised = "FileNotFoundError"
           /\ prediction.at = "import"
           /\ ohe_encoder = "NotLoaded"
           /\ prediction.attempts = 0
           /\ prediction.rankings = <<>>

\* get_predictions was called with the model file missing: the load gave None,
\* and the call failed at predict.
C10_Witness ==
    /\ modelFile = "missing"
    /\ encoderFile = "ok"
    /\ prediction.model = "None"
    /\ prediction.attempts = 1
    /\ prediction.at = "predict"
    /\ prediction.raised = "AttributeError"

(***************************************************************************)
(* C11.  preprocess_input has no side effect: after any sequence of calls  *)
(* the caller's table is the table the caller built (its columns, rows and *)
(* cells, the missing cells and the absent columns too), the module's      *)
(* TRAINING_FEATURE_NAMES is the hardcoded list whatever the schema file   *)
(* held, the encoder is the one loaded, and a call gives what the call     *)
(* before it gave.                                                         *)
(***************************************************************************)
C11_CallsHaveNoSideEffect ==
    /\ data = original
    /\ feature_names = TRAINING_FEATURE_NAMES
    /\ ohe_encoder = "Loaded"
    /\ Aligned => aligned.frame.columns = feature_names
    /\ previous.raised # "NotCalled" =>
           /\ aligned.raised = previous.raised
           /\ aligned.frame = previous.frame

\* A two-row table with a missing Q2_s and without the column EventName has been
\* aligned twice, in a process whose schema file held another list: the function
\* had a cell to fill and a column to add, and the table has neither.
C11_Witness ==
    /\ previous.raised = "None"
    /\ aligned.raised = "None"
    /\ schemaFile = "differs"
    /\ Len(data.rows) = 2
    /\ ~has_column(data, "EventName")
    /\ has_column(data, "Q2_s")
    /\ \E i \in 1..Len(data.rows) : isna(cell_of(data, i, "Q2_s"))
    /\ \A i \in 1..Len(data.rows) : ~isna(cell_of(aligned.frame, i, "Q2_s"))

(***************************************************************************)
(* C12.  A call on a table that has rows and columns but lacks an expected *)
(* column does not raise.  An absent Abbreviation, TeamName or EventName   *)
(* is added with the placeholder 'Unknown' in every row, which the encoder *)
(* was not fitted on, and every output column of that field is 0 in every  *)
(* row; an absent Season, Round, GridPosition, Q1_s, Q2_s, Q3_s or         *)
(* Position is in the output with 0 in every row.                          *)
(***************************************************************************)
C12_AbsentColumnsAreSynthesized ==
    (Aligned /\ ~empty(original)) =>
        /\ \A f \in Range(categorical_features_input) :
               ~has_column(original, f) =>
                   /\ aligned.raised = "None"
                   /\ Len(aligned.frame.rows) = Len(original.rows)
                   /\ ~known(f, Val("Unknown"))
                   /\ \A i \in 1..Len(original.rows) :
                          /\ cell_of(add_missing_categorical(original, categorical_features_input),
                                     i, f) = Val("Unknown")
                          /\ \A c \in FieldColumns(f) : cell_of(aligned.frame, i, c) = Val(0)
        /\ \A c \in Range(numerical_features_input) :
               ~has_column(original, c) =>
                   /\ aligned.raised = "None"
                   /\ Len(aligned.frame.rows) = Len(original.rows)
                   /\ \A i \in 1..Len(original.rows) : cell_of(aligned.frame, i, c) = Val(0)

\* A two-row table that has TeamName alone has been aligned: two category columns
\* and every numeric column were absent, the output has the two rows, with the
\* team of the first row set and nothing set for its Abbreviation.
C12_Witness ==
    /\ Aligned
    /\ aligned.raised = "None"
    /\ original.columns = << "TeamName" >>
    /\ Len(original.rows) = 2
    /\ Len(aligned.frame.rows) = 2
    /\ SetColumns("TeamName", 1) # {}
    /\ SetColumns("Abbreviation", 1) = {}
    /\ cell_of(aligned.frame, 2, "Season") = Val(0)

=============================================================================
